---- MODULE Spec2Model ----
\* A model of vm/src/types/program.rs: the loaded program of the Cairo VM.
\*   - Program::new (constant extraction, hint flattening, reference derivation)
\*   - Program::flatten_hints on its own
\*   - the accessors of Program
\*   - the life of the Arc<SharedProgramData> shared by the clones of a Program
\*
\* Representation:
\*   Option<T>      None = <<>>, Some(x) = <<x>>
\*   Vec<T>         a sequence; the element of index i is v[i + 1]
\*   HashMap<K, V>  a function on the finite set of its keys; every iteration
\*                  over it takes some permutation of the keys
\*   String names   identifier names are sequences of path components
\*                  ("__main__.main" is <<"__main__", "main">>)
\*   usize          0 .. UsizeMax, a machine word of UsizeBits bits
EXTENDS Integers, Sequences, FiniteSets, TLC

VARIABLES
    overflow_checks,    \* the build: TRUE when integer overflow panics (debug), FALSE when it wraps (release)
    args,               \* the arguments of the call under study
    flat,               \* outcome of a call of flatten_hints(&args.hints)
    result,             \* outcome of Program::new(args...)
    again,              \* outcome of a second call of Program::new with equal arguments
    answer,             \* outcome of the last accessor called on the program
    arc,                \* the Arc<SharedProgramData> allocation: strong count and number of frees
    held,               \* held[t]: the live Program handles (values) owned by run-instance t
    tpc                 \* tpc[t]: position of run-instance t ("idle", or "drop_slow" inside Arc's drop)

vars == <<overflow_checks, args, flat, result, again, answer, arc, held, tpc>>

-----------------------------------------------------------------------------
\* Bounds of the model

\* largest number of keys of a HashMap argument (hints, identifiers)
MaxKeys == 2

\* largest length of a Vec argument (builtins, data, references)
MaxVec == 2

\* number of run-instances that hold handles of one program
NumInstances == 2

\* largest number of handles alive at once
MaxHandles == 3

-----------------------------------------------------------------------------
\* Machine words

\* width of usize in the model (the target's pointer width, scaled down)
UsizeBits == 3

UsizeMax == 2^UsizeBits - 1

Usize == 0..UsizeMax

None == <<>>

Some(x) == <<x>>

IsSome(o) == Len(o) = 1

Unwrap(o) == o[1]

\* a + b on usize: panics under overflow checks, wraps otherwise
UsizeAdd(a, b, checks) ==
    IF a + b > UsizeMax
    THEN IF checks THEN [panic |-> TRUE, v |-> 0]
                   ELSE [panic |-> FALSE, v |-> (a + b) % (UsizeMax + 1)]
    ELSE [panic |-> FALSE, v |-> a + b]

UsizeMaxOf(a, b) == IF a >= b THEN a ELSE b

\* all the orders in which an iteration can present the keys S
Orders(S) ==
    {o \in [1..Cardinality(S) -> S] : \A i, j \in 1..Cardinality(S) : i # j => o[i] # o[j]}

\* sequences over S of length at most n
SeqsUpTo(S, n) == UNION {[1..k -> S] : k \in 0..n}

\* maps from at most n keys of K to values of V
MapsUpTo(K, V, n) ==
    UNION {[D -> V] : D \in {D \in SUBSET K : Cardinality(D) <= n}}

EmptyMap == [k \in {} |-> None]

-----------------------------------------------------------------------------
\* Hints

\* HintParams as the tests build them (str_to_hint_param)
HintParams(code) ==
    [code |-> code,
     accessible_scopes |-> <<>>,
     flow_tracking_data |-> [ap_tracking |-> [group |-> 0, offset |-> 0],
                             reference_ids |-> EmptyMap]]

\* the hint lists a pc is given in the model
HintLists ==
    {<<>>,
     <<HintParams("a")>>,
     <<HintParams("b")>>,
     <<HintParams("a"), HintParams("b")>>,
     <<HintParams("b"), HintParams("a")>>}

RECURSIVE SumLen(_, _)
SumLen(hints, keys) ==
    IF keys = {} THEN 0
    ELSE LET k == CHOOSE k \in keys : TRUE
         IN Len(hints[k]) + SumLen(hints, keys \ {k})

\* the hint mappings of the model: the lists are in memory, so their total
\* length is a usize
HintMaps ==
    {m \in MapsUpTo(Usize, HintLists, MaxKeys) : SumLen(m, DOMAIN m) <= UsizeMax}

Returned(hints_values, hints_ranges) ==
    [tag |-> "Return", hints |-> hints_values, hints_ranges |-> hints_ranges]

Panicked(msg) == [tag |-> "Panic", msg |-> msg]

NotCalled == [tag |-> "NotCalled"]

\* one step of the reduce closure: (max_pc, full_len), (pc, len) -> (max, sum)
ReduceStep(acc, pc, len, checks) ==
    LET s == UsizeAdd(acc.full_len, len, checks)
    IN [panic |-> acc.panic \/ s.panic,
        max_pc |-> UsizeMaxOf(acc.max_pc, pc),
        full_len |-> s.v]

\* hints.iter().map(|(pc, hs)| (*pc, hs.len())).reduce(...) over a non-empty order
RECURSIVE ReduceBounds(_, _, _, _)
ReduceBounds(hints, order, acc, checks) ==
    IF order = <<>> THEN acc
    ELSE ReduceBounds(hints, Tail(order),
                      ReduceStep(acc, Head(order), Len(hints[Head(order)]), checks),
                      checks)

Bounds(hints, order, checks) ==
    ReduceBounds(hints, Tail(order),
                 [panic |-> FALSE, max_pc |-> Head(order),
                  full_len |-> Len(hints[Head(order)])],
                 checks)

\* HintRange with the offset left at the start of the dense array
HintRange_OffsetZero(hints_values, hs) == <<0, Len(hs)>>

\* HintRange with the length counted to the end inclusive
HintRange_InclusiveEnd(hints_values, hs) == <<Len(hints_values), Len(hs) + 1>>

\* the range recorded for the hints hs of one pc
HintRange(hints_values, hs) == <<Len(hints_values), Len(hs)>>

\* .filter(|(_, hs)| !hs.is_empty())
NonEmptyPcs(hints, order) == SelectSeq(order, LAMBDA pc : Len(hints[pc]) # 0)

\* the for loop of flatten_hints over the pcs that are left
RECURSIVE FillRanges(_, _, _, _)
FillRanges(hints, order, hints_values, hints_ranges) ==
    IF order = <<>> THEN Returned(hints_values, hints_ranges)
    ELSE LET pc == Head(order)
             hs == hints[pc]
         IN IF Len(hs) = 0 THEN Panicked("empty vecs already filtered")
            ELSE IF pc >= Len(hints_ranges) THEN Panicked("index out of bounds")
            ELSE FillRanges(hints, Tail(order),
                            hints_values \o hs,
                            [hints_ranges EXCEPT ![pc + 1] = Some(HintRange(hints_values, hs))])

\* vec![None; n]
VecOfNone(n) == [i \in 1..n |-> None]

\* Program::flatten_hints, the map iterated in the order `order`
flatten_hints(hints, order, checks) ==
    IF DOMAIN hints = {} THEN Returned(<<>>, <<>>)
    ELSE LET b == Bounds(hints, order, checks)
             n == UsizeAdd(b.max_pc, 1, checks)
         IN IF b.panic \/ n.panic THEN Panicked("attempt to add with overflow")
            ELSE FillRanges(hints, NonEmptyPcs(hints, order), <<>>, VecOfNone(n.v))

-----------------------------------------------------------------------------
\* Identifiers and constants

\* identifier names, as paths
Names ==
    {<<"__main__", "main">>,
     <<"__main__", "main", "SIZEOF_LOCALS">>,
     <<"main">>}

TypeTags == {None, Some("const"), Some("function")}

FeltValues == {None, Some(0), Some(7)}

\* serde::deserialize_program::Identifier
Identifier(pc, type_, value) ==
    [pc |-> pc, type_ |-> type_, value |-> value,
     full_name |-> None, members |-> None, cairo_type |-> None]

Identifiers ==
    {Identifier(IF t = Some("function") THEN Some(0) ELSE None, t, v) :
        t \in TypeTags, v \in FeltValues}

IdentifierMaps == MapsUpTo(Names, Identifiers, MaxKeys)

\* IsConst taking every tagged identifier for a constant
IsConst_AnyTag(value) == value.type_ # None

\* IsConst taking every valued identifier for a constant
IsConst_HasValue(value) == value.value # None

\* value.type_.as_deref() == Some("const")
IsConst(value) == value.type_ = Some("const")

\* ProgramError::ConstWithoutValue(key.clone())
ConstWithoutValue(key) == [variant |-> "ConstWithoutValue", name |-> key]

\* HashMap::insert
MapInsert(m, k, v) == [x \in (DOMAIN m) \cup {k} |-> IF x = k THEN v ELSE m[x]]

\* the for loop of Program::new over the identifiers that are left
RECURSIVE ExtractConstants(_, _, _)
ExtractConstants(identifiers, order, constants) ==
    IF order = <<>> THEN [tag |-> "Ok", constants |-> constants]
    ELSE LET key == Head(order)
             value == identifiers[key]
         IN IF IsConst(value)
            THEN IF value.value = None
                 THEN [tag |-> "Err", error |-> ConstWithoutValue(key)]
                 ELSE ExtractConstants(identifiers, Tail(order),
                                       MapInsert(constants, key, Unwrap(value.value)))
            ELSE ExtractConstants(identifiers, Tail(order), constants)

-----------------------------------------------------------------------------
\* References

\* serde::deserialize_program::OffsetValue, one shape for the three variants
OvReference(register, offset, deref) ==
    [kind |-> "Reference", register |-> register, n |-> offset, flag |-> deref]

OvValue(n) == [kind |-> "Value", register |-> "-", n |-> n, flag |-> FALSE]

OvImmediate(n) == [kind |-> "Immediate", register |-> "-", n |-> n, flag |-> FALSE]

ApTracking(group, offset) == [group |-> group, offset |-> offset]

\* serde::deserialize_program::Reference
Reference(o1, o2, deref, value_type, tracking) ==
    [ap_tracking_data |-> tracking,
     pc |-> Some(0),
     value_address |-> [offset1 |-> o1, offset2 |-> o2,
                        dereference |-> deref, value_type |-> value_type]]

\* the references of the model
References ==
    {Reference(OvReference("AP", 0, FALSE), OvValue(2), TRUE, "felt", ApTracking(1, 3)),
     Reference(OvReference("AP", 1, TRUE), OvReference("AP", 0, FALSE), FALSE, "felt*", ApTracking(0, 0)),
     Reference(OvValue(1), OvReference("AP", 2, TRUE), TRUE, "felt*", ApTracking(1, 0)),
     Reference(OvReference("FP", 0, FALSE), OvReference("AP", 0, FALSE), FALSE, "felt", ApTracking(2, 1)),
     Reference(OvReference("FP", 0, FALSE), OvValue(2), TRUE, "felt", ApTracking(1, 3)),
     Reference(OvReference("FP", 0, TRUE), OvReference("FP", 1, FALSE), FALSE, "felt*", ApTracking(0, 2)),
     Reference(OvImmediate(5), OvValue(0), FALSE, "felt", ApTracking(1, 1)),
     Reference(OvValue(3), OvImmediate(4), TRUE, "felt*", ApTracking(2, 2))}

\* OffsetValue::Reference(Register::AP, _, _)
IsApReference(ov) == ov.kind = "Reference" /\ ov.register = "AP"

\* ApTrackingOf matching on offset1 alone
ApTrackingOf_Offset1Only(r) ==
    IF IsApReference(r.value_address.offset1) THEN Some(r.ap_tracking_data) ELSE None

\* the match of get_reference_list on (offset1, offset2)
ApTrackingOf(r) ==
    IF IsApReference(r.value_address.offset1) \/ IsApReference(r.value_address.offset2)
    THEN Some(r.ap_tracking_data)
    ELSE None

\* the closure of get_reference_list: one HintReference from one Reference
HintReference(r) ==
    [offset1 |-> r.value_address.offset1,
     offset2 |-> r.value_address.offset2,
     dereference |-> r.value_address.dereference,
     ap_tracking_data |-> ApTrackingOf(r),
     cairo_type |-> Some(r.value_address.value_type)]

\* MapCollect collecting back to front
MapCollect_Reversed(references) ==
    [i \in 1..Len(references) |-> HintReference(references[Len(references) + 1 - i])]

\* .iter().map(...).collect()
MapCollect(references) == [i \in 1..Len(references) |-> HintReference(references[i])]

\* Program::get_reference_list
get_reference_list(reference_manager) == MapCollect(reference_manager.references)

-----------------------------------------------------------------------------
\* Program::new

BuiltinNames == {"output", "range_check"}

\* MaybeRelocatable: a field element or a (segment, offset) address
Words == {<<"Int", 1000>>, <<"RelocatableValue", 1, 2>>}

ReferenceManager(references) == [references |-> references]

\* Program::new(builtins, data, main, hints, reference_manager, identifiers,
\*              error_message_attributes, instruction_locations)
Args(builtins, data, main, hints, reference_manager, identifiers, attrs, locations) ==
    [builtins |-> builtins, data |-> data, main |-> main, hints |-> hints,
     reference_manager |-> reference_manager, identifiers |-> identifiers,
     error_message_attributes |-> attrs, instruction_locations |-> locations]

EmptyArgs ==
    Args(<<>>, <<>>, None, EmptyMap, ReferenceManager(<<>>), EmptyMap, <<>>, None)

\* SharedProgramData with the end label set to the number of instructions
SharedProgramData_EndAtLen(a, flattened) ==
    [data |-> a.data,
     hints |-> flattened.hints,
     hints_ranges |-> flattened.hints_ranges,
     main |-> a.main,
     start |-> None,
     end |-> Some(Len(a.data)),
     error_message_attributes |-> a.error_message_attributes,
     instruction_locations |-> a.instruction_locations,
     identifiers |-> a.identifiers,
     reference_manager |-> get_reference_list(a.reference_manager)]

\* struct SharedProgramData as Program::new fills it
SharedProgramData(a, flattened) ==
    [data |-> a.data,
     hints |-> flattened.hints,
     hints_ranges |-> flattened.hints_ranges,
     main |-> a.main,
     start |-> None,
     end |-> None,
     error_message_attributes |-> a.error_message_attributes,
     instruction_locations |-> a.instruction_locations,
     identifiers |-> a.identifiers,
     reference_manager |-> get_reference_list(a.reference_manager)]

\* struct Program
Program(shared_program_data, constants, builtins) ==
    [shared_program_data |-> shared_program_data,
     constants |-> constants,
     builtins |-> builtins]

\* Program::new, the identifiers iterated in ident_order and the hints in hint_order
ProgramNew(a, ident_order, hint_order, checks) ==
    LET c == ExtractConstants(a.identifiers, ident_order, EmptyMap)
    IN IF c.tag = "Err" THEN [tag |-> "Err", error |-> c.error]
       ELSE LET f == flatten_hints(a.hints, hint_order, checks)
            IN IF f.tag = "Panic" THEN Panicked(f.msg)
               ELSE [tag |-> "Ok",
                     program |-> Program(SharedProgramData(a, f), c.constants, a.builtins)]

\* SharedProgramData::default() (derived): every field empty or absent
SharedProgramDataDefault ==
    [data |-> <<>>,
     hints |-> <<>>,
     hints_ranges |-> <<>>,
     main |-> None,
     start |-> None,
     end |-> None,
     error_message_attributes |-> <<>>,
     instruction_locations |-> None,
     identifiers |-> EmptyMap,
     reference_manager |-> <<>>]

\* Program::default()
ProgramDefault == Program(SharedProgramDataDefault, EmptyMap, <<>>)

-----------------------------------------------------------------------------
\* impl TryFrom<CasmContractClass> for Program

\* the field prime in the model (the prime of Felt252, scaled down)
FeltPrime == 17

\* Felt252::from(BigUint): the value reduced into the field
FeltFromBigUint(v) == v % FeltPrime

\* MaybeRelocatable::from(Felt252)
MaybeRelocatableFromFelt(f) == <<"Int", f>>

DecimalDigit(d) ==
    CASE d = 0 -> "0" [] d = 1 -> "1" [] d = 2 -> "2" [] d = 3 -> "3" [] d = 4 -> "4"
      [] d = 5 -> "5" [] d = 6 -> "6" [] d = 7 -> "7" [] d = 8 -> "8" [] d = 9 -> "9"

\* usize::to_string: the decimal text of n
RECURSIVE to_string(_)
to_string(n) ==
    IF n < 10 THEN DecimalDigit(n)
    ELSE to_string(n \div 10) \o DecimalDigit(n % 10)

\* the synthetic hint stored for the pc x
CasmHintParams(x) ==
    [code |-> to_string(x),
     accessible_scopes |-> <<>>,
     flow_tracking_data |-> [ap_tracking |-> [group |-> 0, offset |-> 0],
                             reference_ids |-> EmptyMap]]

\* .collect() of (key, value) pairs into a HashMap: a later pair replaces an
\* earlier one of the same key
RECURSIVE CollectMap(_, _)
CollectMap(pairs, m) ==
    IF pairs = <<>> THEN m
    ELSE CollectMap(Tail(pairs), MapInsert(m, Head(pairs)[1], Head(pairs)[2]))

\* value.bytecode.iter().map(...).collect()
CasmData(class) ==
    [i \in 1..Len(class.bytecode) |->
        MaybeRelocatableFromFelt(FeltFromBigUint(class.bytecode[i].value))]

\* value.hints.iter().map(|(x, _)| (*x, vec![HintParams {..}])).collect()
CasmHints(class) ==
    CollectMap([i \in 1..Len(class.hints) |->
                   <<class.hints[i][1], <<CasmHintParams(class.hints[i][1])>>>>],
               EmptyMap)

\* the arguments try_from passes to Program::new
CasmArgs(class) ==
    Args(<<>>, CasmData(class), None, CasmHints(class), ReferenceManager(<<>>),
         EmptyMap, <<>>, None)

\* try_from(value: CasmContractClass), the hints iterated in hint_order
TryFromCasm(class, hint_order, checks) ==
    ProgramNew(CasmArgs(class), <<>>, hint_order, checks)

\* the contract classes of the model: codewords below and above the prime, a
\* hint table of (pc, hints of the processor) pairs that may repeat a pc
CasmClasses ==
    {[bytecode |-> b, hints |-> h] :
        b \in SeqsUpTo({[value |-> 5], [value |-> FeltPrime + 3]}, MaxVec),
        h \in SeqsUpTo(Usize \X {"TestLessThan", "AllocSegment"}, MaxVec)}

-----------------------------------------------------------------------------
\* Accessors

\* felt::PRIME_STR
PRIME_STR == "0x800000000000011000000000000000000000000000000000000000000000001"

\* prime reading its answer off the program
prime_OfContent(self) == IF self.builtins = <<>> THEN PRIME_STR ELSE "0x0"

prime(self) == PRIME_STR

\* iter_builtins yielding the builtins sorted by name rather than as given
iter_builtins_Sorted(self) ==
    IF self.builtins = <<"range_check", "output">> THEN <<"output", "range_check">> ELSE self.builtins

iter_builtins(self) == self.builtins

iter_data(self) == self.shared_program_data.data

data_len(self) == Len(self.shared_program_data.data)

builtins_len(self) == Len(self.builtins)

\* k ends the path key
IsSuffix(k, key) == Len(k) <= Len(key) /\ SubSeq(key, Len(key) - Len(k) + 1, Len(key)) = k

\* MapGet resolving a name against the end of the keys
MapGet_BySuffix(m, k) ==
    IF \E key \in DOMAIN m : IsSuffix(k, key)
    THEN Some(m[CHOOSE key \in DOMAIN m : IsSuffix(k, key)])
    ELSE None

\* HashMap::get
MapGet(m, k) == IF k \in DOMAIN m THEN Some(m[k]) ELSE None

get_identifier(self, id) == MapGet(self.shared_program_data.identifiers, id)

\* the (name, identifier) pairs, the map iterated in the order `order`
iter_identifiers(self, order) ==
    [i \in 1..Len(order) |-> <<order[i], self.shared_program_data.identifiers[order[i]]>>]

\* the names get_identifier is asked for: the keys of the model and close misses
QueryNames == Names \cup {<<"__main__">>, <<"SIZEOF_LOCALS">>, <<"main", "SIZEOF_LOCALS">>}

-----------------------------------------------------------------------------
\* The shared allocation: Arc<SharedProgramData>

Instances == 0..(NumInstances - 1)

RECURSIVE SumHeld(_, _)
SumHeld(h, ts) ==
    IF ts = {} THEN 0
    ELSE LET t == CHOOSE t \in ts : TRUE IN Len(h[t]) + SumHeld(h, ts \ {t})

\* number of live handles
LiveHandles == SumHeld(held, Instances)

\* the handle values that are live
Handles == UNION {{held[t][i] : i \in 1..Len(held[t])} : t \in Instances}

\* Arc::new
ArcNew == [strong |-> 1, frees |-> 0]

\* Arc::clone: strong.fetch_add(1)
StrongAfterClone(strong) == strong + 1

\* CloneProgram leaving the constants of the clone empty
CloneProgram_NoConstants(self) == Program(self.shared_program_data, EmptyMap, self.builtins)

\* Program::clone (derived): the Arc is cloned, so the clone shares the
\* SharedProgramData; the constants and the builtins are copied
CloneProgram(self) == Program(self.shared_program_data, self.constants, self.builtins)

\* WasLastHandle freeing one handle early
WasLastHandle_OffByOne(old) == old <= 2

\* Arc::drop: strong.fetch_sub(1) returned `old`; the allocation is freed when it was 1
WasLastHandle(old) == old = 1

-----------------------------------------------------------------------------
\* Actions

\* a call of flatten_hints(&args.hints)
FlattenHints ==
    /\ flat.tag = "NotCalled"
    /\ \E order \in Orders(DOMAIN args.hints) :
          flat' = flatten_hints(args.hints, order, overflow_checks)
    /\ UNCHANGED <<overflow_checks, again, args, result, answer, arc, held, tpc>>

\* run-instance 0 calls Program::new(args...) and owns what it returns
New ==
    /\ result.tag = "NotCalled"
    /\ \E ident_order \in Orders(DOMAIN args.identifiers),
          hint_order \in Orders(DOMAIN args.hints) :
          result' = ProgramNew(args, ident_order, hint_order, overflow_checks)
    /\ IF result'.tag = "Ok"
       THEN /\ arc' = ArcNew
            /\ held' = [held EXCEPT ![0] = <<result'.program>>]
       ELSE UNCHANGED <<arc, held>>
    /\ UNCHANGED <<overflow_checks, again, args, flat, answer, tpc>>

\* run-instance 0 converts the contract class args and owns what it gets
TryFrom ==
    /\ result.tag = "NotCalled"
    /\ \E hint_order \in Orders(DOMAIN CasmHints(args)) :
          result' = TryFromCasm(args, hint_order, overflow_checks)
    /\ IF result'.tag = "Ok"
       THEN /\ arc' = ArcNew
            /\ held' = [held EXCEPT ![0] = <<result'.program>>]
       ELSE UNCHANGED <<arc, held>>
    /\ UNCHANGED <<overflow_checks, again, args, flat, answer, tpc>>

\* Program::new is called once more with arguments equal to those of the first
\* call, held in maps of their own, which iterate in orders of their own
NewAgain ==
    /\ result.tag # "NotCalled"
    /\ again.tag = "NotCalled"
    /\ \E ident_order \in Orders(DOMAIN args.identifiers),
          hint_order \in Orders(DOMAIN args.hints) :
          again' = ProgramNew(args, ident_order, hint_order, overflow_checks)
    /\ UNCHANGED <<overflow_checks, args, flat, result, answer, arc, held, tpc>>

\* run-instance 0 calls Program::default() and owns what it returns
Default ==
    /\ result.tag = "NotCalled"
    /\ result' = [tag |-> "Default", program |-> ProgramDefault]
    /\ arc' = ArcNew
    /\ held' = [held EXCEPT ![0] = <<ProgramDefault>>]
    /\ UNCHANGED <<overflow_checks, again, args, flat, answer, tpc>>

\* the answer of an accessor called by the holder of a handle
Reply(op, arg, ret) ==
    /\ result.tag \in {"Ok", "Default"}
    /\ LiveHandles >= 1
    /\ answer' = [op |-> op, arg |-> arg, ret |-> ret]
    /\ UNCHANGED <<overflow_checks, again, args, flat, result, arc, held, tpc>>

Prime == \E self \in Handles : Reply("prime", None, prime(self))

IterBuiltins == \E self \in Handles : Reply("iter_builtins", None, iter_builtins(self))

BuiltinsLen == \E self \in Handles : Reply("builtins_len", None, builtins_len(self))

IterData == \E self \in Handles : Reply("iter_data", None, iter_data(self))

DataLen == \E self \in Handles : Reply("data_len", None, data_len(self))

GetIdentifier ==
    \E self \in Handles, id \in QueryNames :
        Reply("get_identifier", Some(id), get_identifier(self, id))

IterIdentifiers ==
    \E self \in Handles :
        \E order \in Orders(DOMAIN self.shared_program_data.identifiers) :
            Reply("iter_identifiers", None, iter_identifiers(self, order))

\* run-instance t clones one of its handles and hands the clone to run-instance u
Clone(t, u) ==
    /\ tpc[t] = "idle"
    /\ arc.strong < MaxHandles
    /\ \E i \in 1..Len(held[t]) :
          held' = [held EXCEPT ![u] = Append(@, CloneProgram(held[t][i]))]
    /\ arc' = [arc EXCEPT !.strong = StrongAfterClone(arc.strong)]
    /\ UNCHANGED <<overflow_checks, again, args, flat, result, answer, tpc>>

\* run-instance t drops one of its handles: the atomic decrement of Arc::drop
DropHandle(t) ==
    /\ Len(held[t]) >= 1
    /\ tpc[t] = "idle"
    /\ held' = [held EXCEPT ![t] = SubSeq(@, 1, Len(@) - 1)]
    /\ arc' = [arc EXCEPT !.strong = @ - 1]
    /\ tpc' = [tpc EXCEPT ![t] = IF WasLastHandle(arc.strong) THEN "drop_slow" ELSE "idle"]
    /\ UNCHANGED <<overflow_checks, again, args, flat, result, answer>>

\* run-instance t, having dropped the last handle, frees the shared data
DropSlow(t) ==
    /\ tpc[t] = "drop_slow"
    /\ arc' = [arc EXCEPT !.frees = @ + 1]
    /\ tpc' = [tpc EXCEPT ![t] = "idle"]
    /\ UNCHANGED <<overflow_checks, again, args, flat, result, answer, held>>

-----------------------------------------------------------------------------
\* Specifications

NoAnswer == [op |-> "none"]

NoArc == [strong |-> 0, frees |-> 0]

InitWith(argset) ==
    /\ overflow_checks \in BOOLEAN
    /\ args \in argset
    /\ flat = NotCalled
    /\ result = NotCalled
    /\ again = NotCalled
    /\ answer = NoAnswer
    /\ arc = NoArc
    /\ held = [t \in Instances |-> <<>>]
    /\ tpc = [t \in Instances |-> "idle"]

\* flatten_hints on every hint mapping of the model
FlattenArgs == {[EmptyArgs EXCEPT !.hints = m] : m \in HintMaps}

InitFlatten == InitWith(FlattenArgs)

NextFlatten == FlattenHints

SpecFlatten == InitFlatten /\ [][NextFlatten]_vars

\* hint mappings for the calls of Program::new
FewHintMaps ==
    {EmptyMap,
     [pc \in {UsizeMax} |-> <<HintParams("a")>>]}

SomeHints == [pc \in {0, 2} |-> IF pc = 0 THEN <<HintParams("b")>> ELSE <<HintParams("a"), HintParams("b")>>]

Attributes == {<<>>, <<[name |-> "error_message", start_pc |-> 0, end_pc |-> 1, value |-> "oops"]>>}

Locations == {None, Some([pc \in {0} |-> [hints |-> <<>>, inst |-> "a.cairo:1:1"]])}

\* Program::new with the identifiers varied
IdentifierArgs ==
    {[EmptyArgs EXCEPT !.identifiers = ids, !.hints = h] :
        ids \in IdentifierMaps, h \in FewHintMaps}

\* Program::new with the reference manager varied
ReferenceArgs ==
    {[EmptyArgs EXCEPT !.reference_manager = ReferenceManager(rs), !.hints = SomeHints] :
        rs \in SeqsUpTo(References, MaxVec)}

\* Program::new with the builtins, the instructions and the entry pc varied
DataArgs ==
    {Args(b, d, m, SomeHints, ReferenceManager(<<>>),
          [n \in {<<"main">>} |-> Identifier(Some(0), Some("function"), None)],
          at, CHOOSE l \in Locations : (l = None) <=> (at = <<>>)) :
        b \in SeqsUpTo(BuiltinNames, MaxVec), d \in SeqsUpTo(Words, MaxVec),
        m \in {None, Some(0), Some(UsizeMax)}, at \in Attributes}

NewArgs == IdentifierArgs \cup ReferenceArgs \cup DataArgs

InitNew == InitWith(NewArgs)

NextNew ==
    \/ New
    \/ Prime
    \/ IterBuiltins
    \/ BuiltinsLen
    \/ IterData
    \/ DataLen
    \/ GetIdentifier
    \/ IterIdentifiers

SpecNew == InitNew /\ [][NextNew]_vars

\* the handles of one program, cloned and dropped by the run-instances
ArcArgs ==
    {[EmptyArgs EXCEPT !.identifiers = ids, !.hints = SomeHints, !.data = d] :
        ids \in MapsUpTo({<<"main">>}, Identifiers, 1), d \in SeqsUpTo(Words, 1)}

InitArc == InitWith(ArcArgs)

NextArc ==
    \/ New
    \/ \E t, u \in Instances : Clone(t, u)
    \/ \E t \in Instances : DropHandle(t)
    \/ \E t \in Instances : DropSlow(t)

SpecArc == InitArc /\ [][NextArc]_vars

\* the conversion of every contract class of the model
InitCasm == InitWith(CasmClasses)

NextCasm == TryFrom

SpecCasm == InitCasm /\ [][NextCasm]_vars

\* Program::new and Program::default side by side
DefaultArgs == {EmptyArgs} \cup DataArgs

InitDefault == InitWith(DefaultArgs)

NextDefault ==
    \/ New
    \/ Default
    \/ Prime

SpecDefault == InitDefault /\ [][NextDefault]_vars

\* two calls of Program::new with equal arguments
InitTwice == InitWith(NewArgs)

NextTwice ==
    \/ New
    \/ NewAgain

SpecTwice == InitTwice /\ [][NextTwice]_vars

\* every operation, on the arguments of the lifecycle specification
Init == InitWith(ArcArgs)

Next == NextFlatten \/ NextNew \/ NextArc

Spec == Init /\ [][Next]_vars

-----------------------------------------------------------------------------
\* Hint flattening (checked under SpecFlatten)

\* the pcs to which the index gives a range
RangedPcs(hints_ranges) == {pc \in 0..(Len(hints_ranges) - 1) : IsSome(hints_ranges[pc + 1])}

\* hints[offset .. offset + len] for the range of pc
SliceOf(f, pc) ==
    LET range == Unwrap(f.hints_ranges[pc + 1])
    IN SubSeq(f.hints, range[1] + 1, range[1] + range[2])

\* the pc -> list mapping rebuilt from the index and the dense array
Rebuilt(f) == [pc \in RangedPcs(f.hints_ranges) |-> SliceOf(f, pc)]

\* the keys of the mapping with at least one hint
NonEmptyKeys(m) == {pc \in DOMAIN m : m[pc] # <<>>}

\* C1: whenever flatten_hints(M) returns, the pcs with a range are exactly the
\* keys of M with a non-empty list, and the slice of the dense array at the
\* range of each such pc is M[pc], same elements in the same order: the mapping
\* rebuilt from the index and the dense array is M restricted to its non-empty
\* lists, whatever the iteration order.
C1_RoundTrip ==
    flat.tag = "Return" =>
        /\ RangedPcs(flat.hints_ranges) = NonEmptyKeys(args.hints)
        /\ \A pc \in RangedPcs(flat.hints_ranges) :
              pc \in DOMAIN args.hints /\ SliceOf(flat, pc) = args.hints[pc]
        /\ Rebuilt(flat) = [pc \in NonEmptyKeys(args.hints) |-> args.hints[pc]]

\* flatten_hints returned for a mapping with two non-empty lists, one of two
\* different hints, iterated with the larger pc first
C1_Witness ==
    /\ flat.tag = "Return"
    /\ \E p, q \in RangedPcs(flat.hints_ranges) :
          /\ p < q
          /\ Unwrap(flat.hints_ranges[p + 1])[1] > Unwrap(flat.hints_ranges[q + 1])[1]
          /\ Len(args.hints[p]) = 2
          /\ args.hints[p][1] # args.hints[p][2]

\* the largest key of a non-empty mapping
MaxKey(m) == CHOOSE pc \in DOMAIN m : \A other \in DOMAIN m : other <= pc

\* C2: flatten_hints of the empty mapping returns an empty dense array and an
\* index of length 0; of a non-empty mapping, an index of length max_pc + 1
\* (keys of empty lists included) in which index[pc] is Some exactly when pc has
\* at least one hint.
C2_IndexSize ==
    flat.tag = "Return" =>
        IF DOMAIN args.hints = {}
        THEN flat.hints = <<>> /\ flat.hints_ranges = <<>>
        ELSE /\ Len(flat.hints_ranges) = MaxKey(args.hints) + 1
             /\ \A pc \in 0..MaxKey(args.hints) :
                   IsSome(flat.hints_ranges[pc + 1]) <=> pc \in NonEmptyKeys(args.hints)

-----------------------------------------------------------------------------
\* Construction (checked under SpecNew)

\* the const-tagged identifiers of the table given to Program::new
ConstNames == {n \in DOMAIN args.identifiers : args.identifiers[n].type_ = <<"const">>}

\* those of them that lack a value
ValuelessConsts == {n \in ConstNames : args.identifiers[n].value = <<>>}

\* C3: when the identifier table holds a const-tagged identifier without a
\* value, Program::new fails with ConstWithoutValue carrying the name of a
\* const-tagged identifier that lacks a value.
C3_ConstWithoutValue ==
    (result.tag # "NotCalled" /\ ValuelessConsts # {}) =>
        /\ result.tag = "Err"
        /\ result.error.variant = "ConstWithoutValue"
        /\ result.error.name \in ValuelessConsts

\* Program::new failed on a table that also holds a function without a value
\* and names another identifier first or second
C3_Witness ==
    /\ result.tag = "Err"
    /\ \E n \in DOMAIN args.identifiers :
          /\ n # result.error.name
          /\ args.identifiers[n].type_ = <<"function">>
          /\ args.identifiers[n].value = <<>>

\* C4: when Program::new succeeds, the keys of the constants mapping are the
\* names of the identifiers tagged exactly "const", each with the identifier's
\* own value; no other identifier is in it, valued or not.
C4_ConstantsExact ==
    result.tag = "Ok" =>
        /\ DOMAIN result.program.constants = ConstNames
        /\ \A n \in ConstNames :
              <<result.program.constants[n]>> = args.identifiers[n].value

\* Program::new succeeded on a table with a const and with a valued identifier
\* that is not a const
C4_Witness ==
    /\ result.tag = "Ok"
    /\ ConstNames # {}
    /\ \E n \in DOMAIN args.identifiers :
          n \notin ConstNames /\ args.identifiers[n].value # <<>>

\* C5: Program::new returns Ok with a complete program exactly when every
\* const-tagged identifier has a value, whatever the other arguments, and
\* returns an error and no program otherwise.
C5_OnlyConstCheckFails ==
    result.tag # "NotCalled" =>
        IF ValuelessConsts = {}
        THEN result.tag = "Ok"
        ELSE result.tag = "Err"

\* the reference r has an offset that is register-relative on AP
OnAp(r) ==
    \/ r.value_address.offset1.kind = "Reference" /\ r.value_address.offset1.register = "AP"
    \/ r.value_address.offset2.kind = "Reference" /\ r.value_address.offset2.register = "AP"

GivenReferences == args.reference_manager.references

\* C6: in the program Program::new returns, the i-th derived reference carries
\* Some(ap_tracking_data of the i-th reference) when offset1 or offset2 of that
\* reference is register-relative on AP, and None otherwise.
C6_ApTrackingKept ==
    result.tag = "Ok" =>
        LET derived == result.program.shared_program_data.reference_manager
        IN /\ Len(derived) = Len(GivenReferences)
           /\ \A i \in 1..Len(GivenReferences) :
                 derived[i].ap_tracking_data =
                    IF OnAp(GivenReferences[i])
                    THEN <<GivenReferences[i].ap_tracking_data>>
                    ELSE <<>>

\* a program built from a reference on AP in offset2 alone and a reference
\* with no offset on AP
C6_Witness ==
    /\ result.tag = "Ok"
    /\ \E i, j \in 1..Len(GivenReferences) :
          /\ GivenReferences[i].value_address.offset1.kind # "Reference"
          /\ OnAp(GivenReferences[i])
          /\ ~OnAp(GivenReferences[j])
          /\ result.program.shared_program_data.reference_manager[i].ap_tracking_data # <<>>
          /\ result.program.shared_program_data.reference_manager[j].ap_tracking_data = <<>>

\* C7: the reference list of the program has the length of the reference
\* manager's list, and its i-th element has the i-th reference's offset1,
\* offset2 and dereference flag, and a declared type that is present and is the
\* i-th reference's value type.
C7_ReferencesMapped ==
    result.tag = "Ok" =>
        LET derived == result.program.shared_program_data.reference_manager
        IN /\ Len(derived) = Len(GivenReferences)
           /\ \A i \in 1..Len(GivenReferences) :
                 /\ derived[i].offset1 = GivenReferences[i].value_address.offset1
                 /\ derived[i].offset2 = GivenReferences[i].value_address.offset2
                 /\ derived[i].dereference = GivenReferences[i].value_address.dereference
                 /\ derived[i].cairo_type = <<GivenReferences[i].value_address.value_type>>

\* a program built from two references that differ in every preserved field
C7_Witness ==
    /\ result.tag = "Ok"
    /\ Len(GivenReferences) = 2
    /\ GivenReferences[1].value_address.offset1 # GivenReferences[2].value_address.offset1
    /\ GivenReferences[1].value_address.offset2 # GivenReferences[2].value_address.offset2
    /\ GivenReferences[1].value_address.dereference # GivenReferences[2].value_address.dereference
    /\ GivenReferences[1].value_address.value_type # GivenReferences[2].value_address.value_type
    /\ Len(result.program.shared_program_data.reference_manager) = 2

\* the elements of a sequence
Elements(seq) == {seq[i] : i \in 1..Len(seq)}

\* C8: on a program Program::new returned, iter_builtins yields the given
\* builtins in the given order and builtins_len their count, iter_data yields
\* the given instruction words in the given order and data_len their count, and
\* iter_identifiers yields the (name, identifier) pairs of the given table, each
\* name once.
C8_ReadBack ==
    /\ answer.op = "iter_builtins" => answer.ret = args.builtins
    /\ answer.op = "builtins_len" => answer.ret = Len(args.builtins)
    /\ answer.op = "iter_data" => answer.ret = args.data
    /\ answer.op = "data_len" => answer.ret = Len(args.data)
    /\ answer.op = "iter_identifiers" =>
          /\ Elements(answer.ret) = {<<n, args.identifiers[n]>> : n \in DOMAIN args.identifiers}
          /\ Len(answer.ret) = Cardinality(DOMAIN args.identifiers)

\* iter_builtins answered on a program of two different builtins and two
\* different instruction words
C8_Witness ==
    /\ answer.op = "iter_builtins"
    /\ Len(answer.ret) = 2
    /\ answer.ret[1] # answer.ret[2]
    /\ Len(args.data) = 2
    /\ args.data[1] # args.data[2]

\* C9: get_identifier(name) returns the identifier the table given to the
\* constructor holds under exactly that name, const or not, and None when the
\* table has no such key.
C9_GetIdentifier ==
    answer.op = "get_identifier" =>
        LET id == answer.arg[1]
        IN IF id \in DOMAIN args.identifiers
           THEN answer.ret = <<args.identifiers[id]>>
           ELSE answer.ret = <<>>

\* get_identifier("main") answered None on a table that holds "__main__.main"
\* and not "main"
C9_Witness ==
    /\ answer.op = "get_identifier"
    /\ answer.arg = <<<<"main">>>>
    /\ answer.ret = <<>>
    /\ <<"__main__", "main">> \in DOMAIN args.identifiers

-----------------------------------------------------------------------------
\* Lifecycle of the shared data (checked under SpecArc)

\* no run-instance is inside a drop
AllIdle == \A t \in Instances : tpc[t] = "idle"

\* C10: in every interleaving of clones and drops by the run-instances, the
\* handle count is the number of live handles, the shared data is not freed
\* while a handle is live, it is freed at most once, only by the drop of the
\* last live handle, and it has been freed once every handle is dropped.
C10_FreedOnceAtLastDrop ==
    /\ arc.strong = LiveHandles
    /\ arc.frees <= 1
    /\ arc.frees = 1 => LiveHandles = 0
    /\ \A t \in Instances : tpc[t] = "drop_slow" => (LiveHandles = 0 /\ arc.frees = 0)
    /\ (result.tag = "Ok" /\ LiveHandles = 0 /\ AllIdle) => arc.frees = 1

\* run-instance 1, which was handed a clone by run-instance 0, has dropped the
\* last live handle and is about to free the shared data
C10_Witness ==
    /\ result.tag = "Ok"
    /\ tpc[1] = "drop_slow"
    /\ LiveHandles = 0
    /\ arc.frees = 0

-----------------------------------------------------------------------------
\* Immutability (checked under Spec)

\* C11: after any sequence of accessor calls, clones and drops by the
\* run-instances, every live handle, original or clone, is equal to the
\* program Program::new returned (same shared data, same builtins, same
\* constants), and the last accessor answer is the one the program gave
\* immediately after construction.
C11_Immutable ==
    result.tag = "Ok" =>
        LET built == result.program
        IN /\ \A self \in Handles :
                 /\ self = built
                 /\ self.shared_program_data = built.shared_program_data
                 /\ self.builtins = built.builtins
                 /\ self.constants = built.constants
           /\ answer.op = "prime" => answer.ret = PRIME_STR
           /\ answer.op = "iter_builtins" => answer.ret = built.builtins
           /\ answer.op = "builtins_len" => answer.ret = Len(built.builtins)
           /\ answer.op = "iter_data" => answer.ret = built.shared_program_data.data
           /\ answer.op = "data_len" => answer.ret = Len(built.shared_program_data.data)
           /\ answer.op = "get_identifier" =>
                 answer.ret = IF answer.arg[1] \in DOMAIN built.shared_program_data.identifiers
                              THEN <<built.shared_program_data.identifiers[answer.arg[1]]>>
                              ELSE <<>>
           /\ answer.op = "iter_identifiers" =>
                 Elements(answer.ret) =
                    {<<n, built.shared_program_data.identifiers[n]>> :
                        n \in DOMAIN built.shared_program_data.identifiers}

\* run-instance 1 holds two clones of a program with a constant and an
\* instruction, run-instance 0 has dropped its handles, and an accessor has
\* answered
C11_Witness ==
    /\ result.tag = "Ok"
    /\ held[0] = <<>>
    /\ Len(held[1]) = 2
    /\ DOMAIN result.program.constants # {}
    /\ result.program.shared_program_data.data # <<>>
    /\ answer.op = "get_identifier"
    /\ answer.ret # <<>>

-----------------------------------------------------------------------------
\* Compiled-class import (checked under SpecCasm)

\* the pcs the hint table of the class lists
CasmPcs == {args.hints[i][1] : i \in 1..Len(args.hints)}

\* the decimal text of the pcs of the model
DecimalText == [pc \in 0..9 |-> <<"0", "1", "2", "3", "4", "5", "6", "7", "8", "9">>[pc + 1]]

\* what C12 says of a program converted from the class
CasmProgramAsClaimed(program) ==
    LET shared == program.shared_program_data
    IN /\ Len(shared.data) = Len(args.bytecode)
       /\ \A i \in 1..Len(args.bytecode) :
             shared.data[i] = <<"Int", args.bytecode[i].value % FeltPrime>>
       /\ program.builtins = <<>>
       /\ shared.main = <<>>
       /\ shared.error_message_attributes = <<>>
       /\ DOMAIN shared.identifiers = {}
       /\ DOMAIN program.constants = {}
       /\ shared.reference_manager = <<>>
       /\ RangedPcs(shared.hints_ranges) = CasmPcs
       /\ \A pc \in RangedPcs(shared.hints_ranges) :
             /\ Unwrap(shared.hints_ranges[pc + 1])[2] = 1
             /\ SliceOf(shared, pc) =
                   <<[code |-> DecimalText[pc],
                      accessible_scopes |-> <<>>,
                      flow_tracking_data |-> [ap_tracking |-> [group |-> 0, offset |-> 0],
                                              reference_ids |-> EmptyMap]]>>

\* C12: the conversion of a contract class always succeeds, and the program
\* has one field-element word per codeword in order, no builtins, no entry pc,
\* no attributes, identifiers, constants or references, and for exactly the
\* pcs of the hint table a range of length 1 whose hint has the decimal text of
\* the pc as body and empty metadata, also when a pc is listed twice.
C12_CasmImport ==
    result.tag # "NotCalled" =>
        /\ result.tag = "Ok"
        /\ CasmProgramAsClaimed(result.program)

\* the part of C12 about the program, when the conversion returns one
C12_CasmImportWhenOk ==
    result.tag = "Ok" => CasmProgramAsClaimed(result.program)

-----------------------------------------------------------------------------
\* The prime and the default program (checked under SpecDefault)

\* C13: prime() answers the same fixed string on every program, whatever its
\* builtins, instructions, hints and identifiers, the default program included.
C13_PrimeFixed ==
    answer.op = "prime" =>
        answer.ret = "0x800000000000011000000000000000000000000000000000000000000000001"

\* prime() answered on a program built with builtins, instructions and hints
C13_Witness ==
    /\ answer.op = "prime"
    /\ result.tag = "Ok"
    /\ result.program.builtins # <<>>
    /\ result.program.shared_program_data.data # <<>>
    /\ result.program.shared_program_data.hints # <<>>

-----------------------------------------------------------------------------
\* Shape of the flattened structure (checked under SpecFlatten)

\* the pcs whose range holds the position p of the dense array
Covering(f, p) ==
    {pc \in RangedPcs(f.hints_ranges) :
        /\ Unwrap(f.hints_ranges[pc + 1])[1] <= p
        /\ p < Unwrap(f.hints_ranges[pc + 1])[1] + Unwrap(f.hints_ranges[pc + 1])[2]}

\* C14: in every output of flatten_hints each present range (offset, len) has
\* len >= 1 and offset + len within the dense array, every position of the
\* dense array lies in exactly one range (the ranges are disjoint and cover
\* it), and the dense array is as long as all the per-pc lists together.
C14_WellFormed ==
    flat.tag = "Return" =>
        /\ \A pc \in RangedPcs(flat.hints_ranges) :
              LET range == Unwrap(flat.hints_ranges[pc + 1])
              IN range[2] >= 1 /\ range[1] >= 0 /\ range[1] + range[2] <= Len(flat.hints)
        /\ \A p \in 0..(Len(flat.hints) - 1) : Cardinality(Covering(flat, p)) = 1
        /\ Len(flat.hints) = SumLen(args.hints, DOMAIN args.hints)

\* flatten_hints returned two ranges, one of them of two hints
C14_Witness ==
    /\ flat.tag = "Return"
    /\ Cardinality(RangedPcs(flat.hints_ranges)) = 2
    /\ Len(flat.hints) = 3
    /\ \E pc \in RangedPcs(flat.hints_ranges) : Unwrap(flat.hints_ranges[pc + 1])[2] = 2

\* C15: for every hint mapping with machine-word pcs, the largest pc
\* 2^w - 1 included, flatten_hints returns normally, with an index of length
\* max_pc + 1 computed without wraparound.
C15_NoOverflow ==
    (flat.tag # "NotCalled" /\ DOMAIN args.hints # {}) =>
        /\ flat.tag = "Return"
        /\ Len(flat.hints_ranges) = MaxKey(args.hints) + 1

-----------------------------------------------------------------------------
\* Determinism of construction (checked under SpecTwice)

\* Program's derived PartialEq: the shared data field by field (the dense
\* hint array and the index position by position), the constants, the builtins
ProgramEq(p, q) ==
    /\ p.shared_program_data.data = q.shared_program_data.data
    /\ p.shared_program_data.hints = q.shared_program_data.hints
    /\ p.shared_program_data.hints_ranges = q.shared_program_data.hints_ranges
    /\ p.shared_program_data.main = q.shared_program_data.main
    /\ p.shared_program_data.start = q.shared_program_data.start
    /\ p.shared_program_data.end = q.shared_program_data.end
    /\ p.shared_program_data.error_message_attributes = q.shared_program_data.error_message_attributes
    /\ p.shared_program_data.instruction_locations = q.shared_program_data.instruction_locations
    /\ p.shared_program_data.identifiers = q.shared_program_data.identifiers
    /\ p.shared_program_data.reference_manager = q.shared_program_data.reference_manager
    /\ p.constants = q.constants
    /\ p.builtins = q.builtins

\* C16: two calls of Program::new with equal arguments return programs that
\* are equal under Program's derived equality, whatever the iteration order of
\* the hint mapping, also with hints at two or more pcs.
C16_EqualPrograms ==
    (result.tag = "Ok" /\ again.tag = "Ok") => ProgramEq(result.program, again.program)

-----------------------------------------------------------------------------
\* Verbatim storage (checked under SpecNew)

\* the arguments of Program::new are in the program as they were given
StoredVerbatim(program) ==
    /\ program.shared_program_data.main = args.main
    /\ program.shared_program_data.start = <<>>
    /\ program.shared_program_data.end = <<>>
    /\ program.shared_program_data.data = args.data
    /\ program.shared_program_data.identifiers = args.identifiers
    /\ program.shared_program_data.error_message_attributes = args.error_message_attributes
    /\ program.shared_program_data.instruction_locations = args.instruction_locations

\* C17: Program::new stores the entry pc, the data, the identifiers, the
\* attributes and the debug locations as given and leaves start and end
\* absent; it relates no pc to the instruction count, so whenever the consts
\* have their values it succeeds, with an index of length max_pc + 1, also
\* when the entry pc or a hint's pc is not below the number of instructions.
C17_StoredUnvalidated ==
    (result.tag # "NotCalled" /\ ValuelessConsts = {}) =>
        /\ result.tag = "Ok"
        /\ StoredVerbatim(result.program)
        /\ DOMAIN args.hints # {} =>
              Len(result.program.shared_program_data.hints_ranges) = MaxKey(args.hints) + 1

\* the part of C17 about what is stored, when Program::new returns a program
C17_StoredVerbatimWhenOk ==
    result.tag = "Ok" => StoredVerbatim(result.program)

-----------------------------------------------------------------------------
\* The default program (checked under SpecDefault)

\* the program with nothing in it
AllEmptyProgram ==
    [shared_program_data |->
        [data |-> <<>>, hints |-> <<>>, hints_ranges |-> <<>>,
         main |-> <<>>, start |-> <<>>, end |-> <<>>,
         error_message_attributes |-> <<>>, instruction_locations |-> <<>>,
         identifiers |-> <<>>, reference_manager |-> <<>>],
     constants |-> <<>>,
     builtins |-> <<>>]

AllEmptyArgs ==
    [builtins |-> <<>>, data |-> <<>>, main |-> <<>>, hints |-> <<>>,
     reference_manager |-> [references |-> <<>>], identifiers |-> <<>>,
     error_message_attributes |-> <<>>, instruction_locations |-> <<>>]

\* C18: Program::default() and Program::new on all-empty inputs return the
\* same program: empty data, dense hints and index, absent main, start and
\* end, no attributes or debug locations, empty identifiers, reference list,
\* constants and builtins.
C18_DefaultIsEmptyNew ==
    /\ result.tag = "Default" => result.program = AllEmptyProgram
    /\ (result.tag = "Ok" /\ args = AllEmptyArgs) => result.program = AllEmptyProgram
    /\ (result.tag # "NotCalled" /\ args = AllEmptyArgs) => result.tag \in {"Ok", "Default"}

\* Program::new has returned a program for the all-empty inputs
C18_Witness ==
    /\ args = AllEmptyArgs
    /\ result.tag = "Ok"

====
